---- MODULE Spec2Model ----
(***************************************************************************)
(* Model of src/src/MoonCodeApp.jsx: the Supabase message gateway          *)
(* (fetchMessagesForUser, insertMessage, unlockMessage, mapRowToMessage),  *)
(* the MoonCodeApp message store with its load + realtime effect, and the  *)
(* MoonCameraCapture verification pipeline.                                *)
(*                                                                         *)
(* The file holds four successive copies of the app.  The copies are named *)
(* by their line ranges: v1 = lines 1-1158, v3 = lines 2024-3748,          *)
(* v4 = lines 3749-4879 (lines 1159-2022 have no camera pipeline).         *)
(*                                                                         *)
(* A nullable JavaScript value is modelled as a sequence of length <= 1:   *)
(* Null is <<>> and a present value x is <<x>>.                            *)
(***************************************************************************)
EXTENDS Integers, Sequences, FiniteSets, TLC

----------------------------------------------------------------------------
(* Bounds of the model *)

\* rows the messages table may hold
MaxRows == 2
\* writes to the table in one run: each write advances the clock by one
MaxTime == 2
\* asynchronous operations (gateway calls, queued change-feed events, predict
\* calls, timers) that may be pending at once
MaxInFlight == 2
\* runs of the load + realtime effect in one run: each change of userData.name
\* runs the effect once
MaxEpoch == 3
\* getUserMedia calls of cleaned-up effect runs that may be pending at once
MaxStrays == 1
\* streams that may be running at once
MaxStreams == 1

Names == {"Alice", "Bob"}
Bodies == {"hello"}

Null == <<>>
Some(x) == <<x>>
IsNull(x) == x = <<>>
Val(x) == x[1]

----------------------------------------------------------------------------
VARIABLES
  rows,            \* the messages table: rows[i] is the row with id i
  clock,           \* wall-clock time, as read by new Date() and by the table default
  userName,        \* userData.name
  route,
  messages,        \* the messages state of MoonCodeApp
  sortedMessages,  \* the useMemo value handed to InboxScreen
  activeMessage,
  sendPhoto,
  recipient,
  loads,           \* fetchMessagesForUser calls whose promise has not settled
  channel,         \* "none", "joining" or "joined": the realtime channel of the effect
  feedQ,           \* postgres_changes payloads not yet handed to the channel's handler
  channels,        \* the channels registered on the supabase client, each named by
                   \* the run of the effect that opened it
  sends,           \* insertMessage calls awaited by handleSendMessage
  unlocks,         \* unlockMessage calls awaited by the unlockCapture handler
  epoch,           \* the number of runs of the load + realtime effect so far: the
                   \* viewer context a call was issued under
  reported,        \* the last failure handed to console.error or alert: "", "load",
                   \* "send" or "unlock"
  variant,         \* the copy of MoonCameraCapture the build mounts: "v1", "v3", "v4"
  cam,             \* the useState cells of the mounted MoonCameraCapture
  predicts,        \* verifyMoon runs awaiting model.predict
  timers,          \* setTimeout callbacks of verifyMoon not yet run
  streams          \* the MediaStreams of getUserMedia: live counts the streams
                   \* obtained whose tracks are not stopped, strays the pending
                   \* calls whose continuation will keep its stream running

storeVars == <<rows, clock>>
feedVars == <<channel, feedQ>>
viewVars == <<messages, sortedMessages>>
draftVars == <<sendPhoto, recipient>>
camVars == <<cam, predicts, timers, streams>>

vars == <<rows, clock, userName, route, messages, sortedMessages, activeMessage,
          sendPhoto, recipient, loads, channel, feedQ, channels, sends, unlocks,
          epoch, reported, variant, cam, predicts, timers, streams>>

----------------------------------------------------------------------------
(* Sequence helpers *)

RECURSIVE SeqMap(_, _)
SeqMap(F(_), s) == IF s = <<>> THEN <<>> ELSE <<F(Head(s))>> \o SeqMap(F, Tail(s))

RECURSIVE SeqFilter(_, _)
SeqFilter(P(_), s) ==
  IF s = <<>> THEN <<>>
  ELSE (IF P(Head(s)) THEN <<Head(s)>> ELSE <<>>) \o SeqFilter(P, Tail(s))

RemoveAt(s, i) == SubSeq(s, 1, i - 1) \o SubSeq(s, i + 1, Len(s))

\* Array.prototype.findIndex: the first index whose element satisfies P, 0 for -1
FindIndex(P(_), s) ==
  IF \E i \in 1..Len(s) : P(s[i])
  THEN CHOOSE i \in 1..Len(s) : P(s[i]) /\ \A j \in 1..(i - 1) : ~P(s[j])
  ELSE 0

----------------------------------------------------------------------------
(* Helpers: Supabase I/O (lines 2036-2104) *)

\* one step of the stable insertion that orders rows by created_at descending
RECURSIVE InsertByCreatedDesc(_, _)
InsertByCreatedDesc(r, s) ==
  IF s = <<>> THEN <<r>>
  ELSE IF Head(s).created_at >= r.created_at
       THEN <<Head(s)>> \o InsertByCreatedDesc(r, Tail(s))
       ELSE <<r>> \o s

RECURSIVE OrderByCreatedDesc(_)
OrderByCreatedDesc(s) ==
  IF s = <<>> THEN <<>>
  ELSE InsertByCreatedDesc(s[Len(s)], OrderByCreatedDesc(SubSeq(s, 1, Len(s) - 1)))

\* .or(sender.eq.u, recipient.eq.u).order("created_at", {ascending: false})
fetchMessagesForUser(table, u) ==
  LET Involves(r) == r.sender = u \/ r.recipient = u
  IN OrderByCreatedDesc(SeqFilter(Involves, table))

\* insertMessage creating its row unlocked
insertMessage_Unlocked(table, sender, rcpt, body, photo, t) ==
  [id |-> Len(table) + 1, sender |-> sender, recipient |-> rcpt, body |-> body,
   locked |-> FALSE, created_at |-> t, receive_at |-> Null,
   send_photo |-> photo, receive_photo |-> Null]

\* the row insertMessage creates: locked, no receive_photo, id and created_at from the table
insertMessage(table, sender, rcpt, body, photo, t) ==
  [id |-> Len(table) + 1, sender |-> sender, recipient |-> rcpt, body |-> body,
   locked |-> TRUE, created_at |-> t, receive_at |-> Null,
   send_photo |-> photo, receive_photo |-> Null]

\* unlockMessage with receive_photo left out of the update
unlockMessage_NoPhoto(row, photo, t) ==
  [row EXCEPT !.locked = FALSE, !.receive_at = Some(t)]

\* unlockMessage with receive_at left out of the update
unlockMessage_NoReceiveAt(row, photo, t) ==
  [row EXCEPT !.locked = FALSE, !.receive_photo = photo]

\* the row unlockMessage writes: .update({locked, receive_photo, receive_at}).eq("id", id)
unlockMessage(row, photo, t) ==
  [row EXCEPT !.locked = FALSE, !.receive_photo = photo, !.receive_at = Some(t)]

\* a projection that takes the recipient for the viewer
mapRowToMessage_AsRecipient(row, viewerName) ==
  [id |-> row.id, from |-> row.sender, to |-> "You", body |-> row.body,
   locked |-> row.locked, sentAt |-> row.created_at, receiveAt |-> row.receive_at,
   sendPhoto |-> row.send_photo, receivePhoto |-> row.receive_photo,
   archived |-> ~IsNull(row.receive_photo),
   rawSender |-> row.sender, rawRecipient |-> row.recipient]

mapRowToMessage(row, viewerName) ==
  LET viewer == IF viewerName = "" THEN "You" ELSE viewerName
      isSender == row.sender = viewer
  IN [id |-> row.id,
      from |-> IF isSender THEN "You" ELSE row.sender,
      to |-> IF isSender THEN row.recipient ELSE "You",
      body |-> row.body,
      locked |-> row.locked,
      sentAt |-> row.created_at,
      receiveAt |-> row.receive_at,
      sendPhoto |-> row.send_photo,
      receivePhoto |-> row.receive_photo,
      archived |-> ~IsNull(row.receive_photo),
      rawSender |-> row.sender,
      rawRecipient |-> row.recipient]

----------------------------------------------------------------------------
(* MoonCodeApp, lines 3335-3746 *)

Routes == {"onboarding", "inbox", "sendCapture", "selectRecipient", "compose",
           "messageSent", "unlockCapture", "printing", "gallery"}
CaptureRoutes == {"sendCapture", "unlockCapture"}

\* one step of the stable insertion of Array.prototype.sort under
\* (a, b) => new Date(b.sentAt) - new Date(a.sentAt)
RECURSIVE InsertBySentDesc(_, _)
InsertBySentDesc(m, s) ==
  IF s = <<>> THEN <<m>>
  ELSE IF Head(s).sentAt >= m.sentAt
       THEN <<Head(s)>> \o InsertBySentDesc(m, Tail(s))
       ELSE <<m>> \o s

\* the collection handed on as it is held
SortBySentDesc_Unsorted(s) == s

RECURSIVE SortBySentDesc(_)
SortBySentDesc(s) ==
  IF s = <<>> THEN <<>>
  ELSE InsertBySentDesc(s[Len(s)], SortBySentDesc(SubSeq(s, 1, Len(s) - 1)))

\* the useMemo over [messages]: recomputed in the render that follows setMessages
Render(next) ==
  /\ messages' = next
  /\ sortedMessages' = SortBySentDesc(next)

\* the handler without its findIndex: every event of the viewer is prepended
ApplyChange_AlwaysPrepend(prev, payloadNew, viewer) ==
  IF IsNull(payloadNew) THEN prev
  ELSE IF Val(payloadNew).sender # viewer /\ Val(payloadNew).recipient # viewer THEN prev
  ELSE <<mapRowToMessage(Val(payloadNew), viewer)>> \o prev

\* the handler without its sender/recipient test
ApplyChange_NoFilter(prev, payloadNew, viewer) ==
  IF IsNull(payloadNew) THEN prev
  ELSE LET mapped == mapRowToMessage(Val(payloadNew), viewer)
           hits == {i \in 1..Len(prev) : prev[i].id = mapped.id}
       IN IF hits = {} THEN <<mapped>> \o prev
          ELSE [prev EXCEPT ![CHOOSE i \in hits : \A j \in hits : i <= j] = mapped]

\* the handler moving the entry it replaces to the front
ApplyChange_ToFront(prev, payloadNew, viewer) ==
  IF IsNull(payloadNew) THEN prev
  ELSE LET row == Val(payloadNew) IN
    IF row.sender # viewer /\ row.recipient # viewer THEN prev
    ELSE LET mapped == mapRowToMessage(row, viewer)
             SameId(m) == m.id = mapped.id
             idx == FindIndex(SameId, prev)
         IN IF idx = 0 THEN <<mapped>> \o prev
            ELSE <<mapped>> \o RemoveAt(prev, idx)

\* the postgres_changes handler of the channel opened for viewer
ApplyChange(prev, payloadNew, viewer) ==
  IF IsNull(payloadNew) THEN prev
  ELSE LET row == Val(payloadNew) IN
    IF row.sender # viewer /\ row.recipient # viewer THEN prev
    ELSE LET mapped == mapRowToMessage(row, viewer)
             SameId(m) == m.id = mapped.id
             idx == FindIndex(SameId, prev)
         IN IF idx = 0 THEN <<mapped>> \o prev
            ELSE [prev EXCEPT ![idx] = mapped]

\* a merge that keeps the held copies
ReplaceById_Keeps(prev, mapped) == prev

\* setMessages((prev) => prev.map((m) => (m.id === mapped.id ? mapped : m)))
ReplaceById(prev, mapped) ==
  [i \in 1..Len(prev) |-> IF prev[i].id = mapped.id THEN mapped ELSE prev[i]]

\* InboxScreen: the letters listed under "Awaiting your moon"
Pending(list) ==
  LET IsPending(m) == m.from # "You" /\ (m.locked \/ IsNull(m.receivePhoto)) /\ ~m.archived
  IN SeqFilter(IsPending, list)

\* InboxScreen: the letters listed under "Sent"
Sent(list) ==
  LET IsSent(m) == m.from = "You"
  IN SeqFilter(IsSent, list)

\* InboxScreen: the sent-status of a letter listed under "Sent"
SentStatus(m) == IF ~IsNull(m.receivePhoto) THEN "Opened" ELSE "Waiting..."

\* a write reaches the channel's queue only once the channel has joined
Publish(q, row) == IF channel = "joined" THEN Append(q, Some(row)) ELSE q

InFlight == Len(loads) + Len(feedQ) + Len(sends) + Len(unlocks) + Len(predicts)
            + Len(timers)
\* room for n more pending operations, and for the event of a write
HasRoom(n) == InFlight + n <= MaxInFlight
HasRoomForWrite(n) == HasRoom(n + (IF channel = "joined" THEN 1 ELSE 0))

----------------------------------------------------------------------------
(* Moon Model Configuration and MoonCameraCapture: lines 97-451 (v1),       *)
(* 2143-2589 (v3) and 3844-4083 (v4)                                       *)

Variants == {"v1", "v3", "v4"}

\* probabilities are held in thousandths: 0.70 is 700
MOON_THRESHOLD_v1 == 750
MOON_THRESHOLD_v3 == 700
MOON_THRESHOLD_v4 == 850

MOON_THRESHOLD(v) ==
  CASE v = "v1" -> MOON_THRESHOLD_v1
    [] v = "v3" -> MOON_THRESHOLD_v3
    [] v = "v4" -> MOON_THRESHOLD_v4

\* a className is the sequence of its characters; the three copies name "Moon"
MOON_CLASS_NAME == <<"M", "o", "o", "n">>

\* String.prototype.toLowerCase on the characters the labels use
LowerChar(c) ==
  CASE c = "M" -> "m"
    [] c = "O" -> "o"
    [] c = "N" -> "n"
    [] c = "T" -> "t"
    [] c = "S" -> "s"
    [] OTHER -> c

toLowerCase(str) == [i \in 1..Len(str) |-> LowerChar(str[i])]

\* Math.round(moonProb * 100)
RoundPercent(p) == (p + 5) \div 10

\* the callback of predictions.find: v1 and v3 compare the lower-cased names,
\* v4 compares with ===
IsMoonClass(v, className) ==
  IF v = "v4" THEN className = MOON_CLASS_NAME
  ELSE toLowerCase(className) = toLowerCase(MOON_CLASS_NAME)

\* predictions.find(...) followed by moonPred?.probability ?? 0
MoonProb(v, predictions) ==
  LET IsMoon(p) == IsMoonClass(v, p.className)
      idx == FindIndex(IsMoon, predictions)
  IN IF idx = 0 THEN 0 ELSE predictions[idx].probability

\* the gate without the threshold
Passes_Always(v, moonProb) == TRUE

\* the gate with > for >=
Passes_Strict(v, moonProb) == moonProb > MOON_THRESHOLD(v)

\* the gate of verifyMoon
Passes(v, moonProb) == moonProb >= MOON_THRESHOLD(v)

\* the CaptureRecord verifyMoon hands to onVerifiedMoon
CaptureRecord(dataUrl, moonProb) == [dataUrl |-> dataUrl, confidence |-> moonProb]

\* the useState cells of a MoonCameraCapture that has just mounted, with loadModel
\* and startCamera started by its effects
MountedCam ==
  [mounted |-> TRUE, model |-> FALSE, modelLoading |-> TRUE, modelError |-> FALSE,
   cameraStarting |-> TRUE, cameraReady |-> FALSE, cameraError |-> FALSE,
   capturedDataUrl |-> Null, verifying |-> FALSE,
   resultText |-> [kind |-> "", percent |-> 0],
   stream |-> FALSE,     \* the stream cell holds a stream whose tracks run
   emitted |-> FALSE]    \* onVerifiedMoon was called by a run of this component

NoCam == [MountedCam EXCEPT !.mounted = FALSE, !.modelLoading = FALSE,
                            !.cameraStarting = FALSE]

hasError == cam.cameraError \/ cam.modelError
isReady == ~cam.modelLoading /\ cam.cameraReady /\ ~hasError

\* stopping the tracks of the stream a component holds, if it holds one
StopTracks_Never(n, held) == n

StopTracks(n, held) == IF held THEN n - 1 ELSE n

\* the continuation of a getUserMedia call whose effect run was cleaned up: v1
\* (lines 202-205) and v3 (lines 2270-2273) stop the tracks of the stream they
\* get and return, changing no cell, so that such a call is not kept; v4 (line
\* 3904) returns with the stream running
KeepsStrayStream(v) == v = "v4"

\* the cleanups of the component c on unmount: the one of the [stream] effect
\* stops the stream of the stream cell, the one of the camera effect ends its run
Unmount(st, c) ==
  [live |-> StopTracks(st.live, c.stream),
   strays |-> IF c.cameraStarting /\ KeepsStrayStream(variant)
              THEN st.strays + 1 ELSE st.strays]

\* the conditional rendering of MoonCodeApp: a capture route mounts a
\* MoonCameraCapture, leaving it unmounts the component; a verifyMoon run of an
\* unmounted component, and the timer it set, go on, the state updates of the
\* component being dropped
Disown(q) == [i \in 1..Len(q) |-> [q[i] EXCEPT !.own = FALSE]]

\* setRoute(r) in a step that leaves c in the cells of the component, q as the
\* pending verifyMoon runs and t as the pending timers
SetRouteWith(r, c, q, t) ==
  /\ route' = r
  /\ cam' = IF r = route THEN c
            ELSE IF r \in CaptureRoutes THEN MountedCam ELSE NoCam
  /\ predicts' = IF r # route /\ route \in CaptureRoutes THEN Disown(q) ELSE q
  /\ timers' = IF r # route /\ route \in CaptureRoutes THEN Disown(t) ELSE t
  /\ IF r # route /\ c.mounted
     THEN /\ c.cameraStarting /\ KeepsStrayStream(variant)
               => streams.strays < MaxStrays
          /\ streams' = Unmount(streams, c)
     ELSE UNCHANGED streams

SetRoute(r) == SetRouteWith(r, cam, predicts, timers)

----------------------------------------------------------------------------
(* The load + realtime effect of MoonCodeApp, lines 3527-3564 *)

\* a cleanup that leaves isMounted as it is
Kill_None(q) == q

\* the cleanup of the effect: isMounted = false for the call of the ended run
Kill(q) == [i \in 1..Len(q) |-> [q[i] EXCEPT !.alive = FALSE]]

\* a cleanup that leaves the channel registered
removeChannel_Keeps(chs, c) == chs

\* supabase.removeChannel(channel) of the cleanup
removeChannel(chs, c) == chs \ {c}

\* the cleanup of the effect of the previous name, then the effect of name n:
\* fetchMessagesForUser is called and a channel is opened; with an empty name the
\* effect returns at once.  The call reads the table (ok) or is rejected (~ok)
RunEffect(n, ok) ==
  /\ epoch' = epoch + 1
  /\ loads' = Kill(loads) \o
        (IF n = "" THEN <<>>
         ELSE <<[viewer |-> n, alive |-> TRUE, ok |-> ok, epoch |-> epoch + 1,
                 data |-> IF ok THEN fetchMessagesForUser(rows, n) ELSE <<>>]>>)
  /\ channel' = IF n = "" THEN "none" ELSE "joining"
  /\ channels' = removeChannel(channels, epoch) \union
                  (IF n = "" THEN {} ELSE {epoch + 1})
  /\ feedQ' = <<>>

\* OnboardingScreen: onUpdate("name", value)
UpdateName(n, ok) ==
  /\ route = "onboarding"
  /\ n # userName
  /\ epoch < MaxEpoch
  /\ n # "" => InFlight - Len(feedQ) < MaxInFlight
  /\ userName' = n
  /\ RunEffect(n, ok)
  /\ UNCHANGED <<variant, reported, storeVars, route, viewVars, activeMessage, draftVars, sends, unlocks,
                 camVars>>

\* OnboardingScreen: onBegin, enabled once a name is entered
Begin ==
  /\ route = "onboarding"
  /\ userName # ""
  /\ SetRoute("inbox")
  /\ UNCHANGED <<variant, epoch, channels, reported, storeVars, userName, viewVars, activeMessage,
                 draftVars, loads, feedVars, sends, unlocks>>

\* InboxScreen: onLogout
Logout ==
  /\ route = "inbox"
  /\ epoch < MaxEpoch
  /\ userName' = ""
  /\ RunEffect("", TRUE)
  /\ SetRoute("onboarding")
  /\ UNCHANGED <<variant, reported, storeVars, viewVars, activeMessage, draftVars, sends,
                 unlocks>>

\* the realtime channel finishes joining: later writes are delivered to it
ChannelJoined ==
  /\ channel = "joining"
  /\ channel' = "joined"
  /\ UNCHANGED <<variant, epoch, channels, reported, storeVars, userName, route, viewVars, activeMessage, draftVars, loads,
                 feedQ, sends, unlocks, camVars>>

\* a .catch that empties the collection
LoadSettles_ClearsOnFailure(i) ==
  /\ i \in 1..Len(loads)
  /\ loads' = RemoveAt(loads, i)
  /\ IF loads[i].ok /\ loads[i].alive
     THEN LET Project(r) == mapRowToMessage(r, loads[i].viewer)
          IN Render(SeqMap(Project, loads[i].data))
     ELSE IF loads[i].ok THEN UNCHANGED viewVars ELSE Render(<<>>)
  /\ reported' = IF loads[i].ok THEN reported ELSE "load"
  /\ UNCHANGED <<variant, epoch, channels, storeVars, userName, route, activeMessage, draftVars,
                 feedVars, sends, unlocks, camVars>>

\* the promise of a fetchMessagesForUser call settles: its .then runs, or its
\* .catch, which only logs
LoadSettles(i) ==
  /\ i \in 1..Len(loads)
  /\ loads' = RemoveAt(loads, i)
  /\ IF loads[i].ok /\ loads[i].alive
     THEN LET Project(r) == mapRowToMessage(r, loads[i].viewer)
          IN Render(SeqMap(Project, loads[i].data))
     ELSE UNCHANGED viewVars
  /\ reported' = IF loads[i].ok THEN reported ELSE "load"
  /\ UNCHANGED <<variant, epoch, channels, storeVars, userName, route, activeMessage, draftVars, feedVars,
                 sends, unlocks, camVars>>

\* the channel hands the next postgres_changes payload to the handler
FeedDelivers ==
  /\ feedQ # <<>>
  /\ feedQ' = Tail(feedQ)
  /\ Render(ApplyChange(messages, Head(feedQ), userName))
  /\ UNCHANGED <<variant, epoch, channels, reported, storeVars, userName, route, activeMessage, draftVars, loads, channel,
                 sends, unlocks, camVars>>

----------------------------------------------------------------------------
(* Navigation and sending, lines 3566-3614 and 3630-3745 *)

showNav == route \in {"inbox", "compose", "gallery", "selectRecipient"}

\* BottomNav: onSelect("inbox"), onSelect("gallery")
NavSelect(r) ==
  /\ showNav
  /\ r \in {"inbox", "gallery"}
  /\ r # route
  /\ SetRoute(r)
  /\ UNCHANGED <<variant, epoch, channels, reported, storeVars, userName, viewVars, activeMessage, draftVars, loads,
                 feedVars, sends, unlocks>>

\* handleStartSend: BottomNav onSend and InboxScreen onCompose
handleStartSend ==
  /\ showNav
  /\ SetRoute("sendCapture")
  /\ UNCHANGED <<variant, epoch, channels, reported, storeVars, userName, viewVars, activeMessage, draftVars, loads,
                 feedVars, sends, unlocks>>

\* the onBack of the two MoonCameraCapture, of SelectRecipientScreen and of
\* ComposeLetterScreen
Back ==
  /\ route \in {"sendCapture", "unlockCapture", "selectRecipient", "compose"}
  /\ SetRoute(CASE route = "selectRecipient" -> "sendCapture"
                [] route = "compose" -> "selectRecipient"
                [] OTHER -> "inbox")
  /\ UNCHANGED <<variant, epoch, channels, reported, storeVars, userName, viewVars, activeMessage, draftVars, loads,
                 feedVars, sends, unlocks>>

\* handleSelectRecipient with the trimmed name typed in SelectRecipientScreen
handleSelectRecipient(n) ==
  /\ route = "selectRecipient"
  /\ recipient' = Some(n)
  /\ SetRoute("compose")
  /\ UNCHANGED <<variant, epoch, channels, reported, storeVars, userName, viewVars, activeMessage, sendPhoto, loads,
                 feedVars, sends, unlocks>>

\* handleSendMessage up to its await: insertMessage is called and the table
\* inserts the row (ok), or the call is rejected (~ok)
handleSendMessage(body, ok) ==
  /\ route = "compose"
  /\ userName # ""
  /\ ~IsNull(recipient)
  /\ IF ok
     THEN /\ Len(rows) < MaxRows /\ clock < MaxTime
          /\ HasRoomForWrite(1)
          /\ LET row == insertMessage(rows, userName, Val(recipient), body, sendPhoto,
                                      clock + 1)
             IN /\ rows' = Append(rows, row)
                /\ feedQ' = Publish(feedQ, row)
                /\ sends' = Append(sends, [row |-> Some(row), sender |-> userName,
                                           ok |-> TRUE, epoch |-> epoch])
          /\ clock' = clock + 1
     ELSE /\ HasRoom(1)
          /\ sends' = Append(sends, [row |-> Null, sender |-> userName,
                                     ok |-> FALSE, epoch |-> epoch])
          /\ UNCHANGED <<rows, clock, feedQ>>
  /\ UNCHANGED <<variant, epoch, channels, reported, userName, route, viewVars, activeMessage, draftVars, loads, channel,
                 unlocks, camVars>>

\* handleSendMessage after its await: the returned row is merged, or the catch
\* alerts
SendSettles(i) ==
  /\ i \in 1..Len(sends)
  /\ sends' = RemoveAt(sends, i)
  /\ IF sends[i].ok
     THEN LET mapped == mapRowToMessage(Val(sends[i].row), sends[i].sender)
          IN /\ Render(<<mapped>> \o messages)
             /\ activeMessage' = Some(mapped)
             /\ SetRoute("messageSent")
             /\ UNCHANGED reported
     ELSE /\ reported' = "send"
          /\ UNCHANGED <<viewVars, activeMessage, route, camVars>>
  /\ UNCHANGED <<variant, epoch, channels, storeVars, userName, draftVars, loads, feedVars, unlocks>>

\* handleMessageSentComplete, run by the timer of MessageSentScreen
handleMessageSentComplete ==
  /\ route = "messageSent"
  /\ recipient' = Null
  /\ sendPhoto' = Null
  /\ SetRoute("inbox")
  /\ UNCHANGED <<variant, epoch, channels, reported, storeVars, userName, viewVars, activeMessage, loads, feedVars,
                 sends, unlocks>>

\* handleOpenMessage on a letter of the pending list of InboxScreen
handleOpenMessage(k) ==
  /\ route = "inbox"
  /\ k \in 1..Len(Pending(sortedMessages))
  /\ LET msg == Pending(sortedMessages)[k]
     IN /\ activeMessage' = Some(msg)
        /\ SetRoute(IF msg.locked \/ IsNull(msg.receivePhoto)
                    THEN "unlockCapture" ELSE "printing")
  /\ UNCHANGED <<variant, epoch, channels, reported, storeVars, userName, viewVars, draftVars, loads, feedVars,
                 sends, unlocks>>

\* handlePrintingComplete, run by the timer of PrintingScreen
handlePrintingComplete ==
  /\ route = "printing"
  /\ SetRoute("inbox")
  /\ UNCHANGED <<variant, epoch, channels, reported, storeVars, userName, viewVars, activeMessage, draftVars, loads,
                 feedVars, sends, unlocks>>

----------------------------------------------------------------------------
(* The actions of MoonCameraCapture: lines 124-334 (v1), 2181-2459 (v3),    *)
(* 3876-3996 (v4)                                                          *)

\* a prediction of the model; a frame is represented by the predictions the model
\* computes for it, so that model.predict(canvas) reads them off the frame
Prediction(className, probability) ==
  [className |-> className, probability |-> probability]

predict(frame) == frame

\* loadModel settles: setModel, or the catch (setModelError in v1 and v3,
\* setCameraError in v4); then its finally
ModelLoadSettles(ok) ==
  /\ cam.mounted /\ cam.modelLoading
  /\ cam' = [cam EXCEPT !.modelLoading = FALSE, !.model = ok,
                        !.modelError = ~ok /\ variant # "v4",
                        !.cameraError = @ \/ (~ok /\ variant = "v4")]
  /\ UNCHANGED <<variant, epoch, channels, reported, storeVars, userName, route, viewVars, activeMessage, draftVars,
                 loads, feedVars, sends, unlocks, predicts, timers, streams>>

\* a video element that is rendered only once the model has loaded
VideoRendered_AfterModel ==
  ~hasError /\ IsNull(cam.capturedDataUrl) /\ ~cam.modelLoading

\* videoRef.current is set: the video element is rendered without an error and
\* without a held frame, whether or not the model has loaded
VideoRendered == ~hasError /\ IsNull(cam.capturedDataUrl)

\* startCamera settles: getUserMedia resolves, setStream takes the stream (the
\* cleanup of the [stream] effect stopping the one held before) and the video
\* plays, or getUserMedia is rejected and the catch sets cameraError.  In v3 the
\* video element is rendered only without an error and without a held frame,
\* and cameraReady is set once it plays
CameraSettles(ok) ==
  /\ cam.mounted /\ cam.cameraStarting
  /\ cam' = [cam EXCEPT !.cameraStarting = FALSE,
                        !.cameraReady = IF variant = "v3"
                                        THEN ok /\ VideoRendered
                                        ELSE ok,
                        !.cameraError = @ \/ ~ok,
                        !.stream = ok]
  /\ streams' = IF ok THEN [streams EXCEPT !.live = StopTracks(@, cam.stream) + 1]
                ELSE streams
  /\ UNCHANGED <<variant, epoch, channels, reported, storeVars, userName, route, viewVars, activeMessage, draftVars,
                 loads, feedVars, sends, unlocks, predicts, timers>>

\* startCamera fails after the stream was obtained: getUserMedia resolves,
\* setStream takes the stream, and play() of the rendered video element is
\* rejected, which sets cameraError
CameraPlayFails ==
  /\ cam.mounted /\ cam.cameraStarting
  /\ VideoRendered
  /\ cam' = [cam EXCEPT !.cameraStarting = FALSE, !.cameraError = TRUE,
                        !.stream = TRUE]
  /\ streams' = [streams EXCEPT !.live = StopTracks(@, cam.stream) + 1]
  /\ UNCHANGED <<variant, epoch, channels, reported, storeVars, userName, route, viewVars, activeMessage, draftVars,
                 loads, feedVars, sends, unlocks, predicts, timers>>

\* a getUserMedia call of a cleaned-up run settles: resolved (ok), v4 returns at
\* `if (!alive) return` and the stream stays running; rejected, the catch sets
\* cameraError of the component that is gone
StrayCameraSettles(ok) ==
  /\ streams.strays > 0
  /\ ok => streams.live < MaxStreams
  /\ streams' = [live |-> IF ok THEN streams.live + 1 ELSE streams.live,
                 strays |-> streams.strays - 1]
  /\ UNCHANGED <<variant, epoch, channels, reported, storeVars, userName, route, viewVars, activeMessage, draftVars,
                 loads, feedVars, sends, unlocks, cam, predicts, timers>>

\* takePhoto: the capture button is rendered without an error and without a held
\* frame; v3 disables it unless isReady, v1 and v4 while modelLoading
takePhoto(f) ==
  /\ cam.mounted /\ ~hasError /\ IsNull(cam.capturedDataUrl)
  /\ IF variant = "v3" THEN isReady ELSE ~cam.modelLoading
  /\ cam' = [cam EXCEPT !.capturedDataUrl = Some(f),
                        !.resultText = [kind |-> "", percent |-> 0]]
  /\ UNCHANGED <<variant, epoch, channels, reported, storeVars, userName, route, viewVars, activeMessage, draftVars,
                 loads, feedVars, sends, unlocks, predicts, timers, streams>>

\* retake: clears the frame and the text; v3 also clears verifying and restarts
\* the camera through restartToken, the cleanup of the camera effect stopping
\* currentStream before the effect runs again
retake ==
  /\ cam.mounted /\ ~hasError /\ ~IsNull(cam.capturedDataUrl)
  /\ cam' = IF variant = "v3"
            THEN [cam EXCEPT !.capturedDataUrl = Null,
                             !.resultText = [kind |-> "", percent |-> 0],
                             !.verifying = FALSE, !.cameraReady = FALSE,
                             !.cameraStarting = TRUE, !.stream = FALSE]
            ELSE [cam EXCEPT !.capturedDataUrl = Null,
                             !.resultText = [kind |-> "", percent |-> 0]]
  /\ streams' = IF variant = "v3"
                THEN [streams EXCEPT !.live = StopTracks(@, cam.stream)]
                ELSE streams
  /\ UNCHANGED <<variant, epoch, channels, reported, storeVars, userName, route, viewVars, activeMessage, draftVars,
                 loads, feedVars, sends, unlocks, predicts, timers>>

\* what the onVerifiedMoon closure of the current render reads: activeMessage.id
ActiveId == IF IsNull(activeMessage) THEN Null ELSE Some(Val(activeMessage).id)

\* verifyMoon up to its await of model.predict; the run keeps the props and the
\* capturedDataUrl of the render it was started from.  Without a model v3 shows a
\* text, v1 and v4 return
verifyMoon ==
  /\ cam.mounted /\ ~hasError /\ ~IsNull(cam.capturedDataUrl)
  /\ ~cam.verifying /\ ~cam.modelLoading
  /\ HasRoom(1)
  /\ IF ~cam.model
     THEN /\ cam' = IF variant = "v3"
                    THEN [cam EXCEPT !.resultText = [kind |-> "noModel", percent |-> 0]]
                    ELSE cam
          /\ UNCHANGED predicts
     ELSE /\ cam' = [cam EXCEPT !.verifying = TRUE,
                                !.resultText = [kind |-> IF variant = "v3"
                                                         THEN "analyzing" ELSE "",
                                                percent |-> 0]]
          /\ predicts' = Append(predicts,
               [own |-> TRUE, kind |-> route, dataUrl |-> cam.capturedDataUrl,
                activeId |-> ActiveId, name |-> userName])
  /\ UNCHANGED <<variant, epoch, channels, reported, storeVars, userName, route, viewVars, activeMessage, draftVars,
                 loads, feedVars, sends, unlocks, timers, streams>>

----------------------------------------------------------------------------
(* onVerifiedMoon of the two capture routes: lines 1081-1084 and 1117-1135  *)
(* (v1), 3671-3674 and 3710-3727 (v3), 4797-4801 and 4834-4860 (v4)         *)

\* onVerifiedMoon of sendCapture, called with capture in a step that leaves c in
\* the cells of the component, q as the pending verifyMoon runs and t as the
\* pending timers
HandleSend(capture, c, q, t) ==
  /\ sendPhoto' = Some(capture)
  /\ SetRouteWith("selectRecipient", c, q, t)
  /\ UNCHANGED <<rows, clock, feedQ, unlocks, reported>>

\* onVerifiedMoon of unlockCapture up to the await of unlockMessage: the table
\* updates the row (ok), or the call is rejected (~ok); reading activeMessage.id
\* of a null activeMessage throws into the catch, which alerts
HandleUnlock(call, ok, c, q, t) ==
  /\ IF IsNull(call.activeId)
     THEN /\ reported' = "unlock"
          /\ UNCHANGED <<rows, clock, feedQ, unlocks>>
     ELSE IF ok
     THEN /\ clock < MaxTime
          /\ HasRoomForWrite(0)
          /\ LET id == Val(call.activeId)
                 row == unlockMessage(rows[id], Some(call.capture), clock + 1)
             IN /\ rows' = [rows EXCEPT ![id] = row]
                /\ feedQ' = Publish(feedQ, row)
                /\ unlocks' = Append(unlocks, [row |-> Some(row), name |-> call.name,
                                               ok |-> TRUE, epoch |-> epoch])
          /\ clock' = clock + 1
          /\ UNCHANGED reported
     ELSE /\ unlocks' = Append(unlocks, [row |-> Null, name |-> call.name,
                                         ok |-> FALSE, epoch |-> epoch])
          /\ UNCHANGED <<rows, clock, feedQ, reported>>
  /\ cam' = IF call.own THEN [c EXCEPT !.emitted = TRUE] ELSE c
  /\ predicts' = q
  /\ timers' = t
  /\ UNCHANGED <<route, sendPhoto, streams>>

\* a catch that reports a rejection
resultKind_FailureAsRejection(answered, pass) ==
  IF answered /\ pass THEN "verified" ELSE "rejected"

\* the text verifyMoon sets after its await: "Verification failed" in the catch,
\* else the verified or the rejection text
resultKind(answered, pass) ==
  IF ~answered THEN "failed" ELSE IF pass THEN "verified" ELSE "rejected"

\* a verifyMoon without its finally
Finally_Skipped(c) == c

\* the finally of verifyMoon: setVerifying(false)
Finally(c) == [c EXCEPT !.verifying = FALSE]

\* verifyMoon after its await: predict answered, or threw (~answered).  On a pass
\* v1 and v4 call onVerifiedMoon at once (ok: its unlockMessage call is not
\* rejected), v3 schedules the call after its 1000 ms delay
PredictSettles(i, answered, ok) ==
  /\ i \in 1..Len(predicts)
  /\ LET run == predicts[i]
         moonProb == MoonProb(variant, predict(Val(run.dataUrl)))
         pass == answered /\ Passes(variant, moonProb)
         text == [kind |-> resultKind(answered, pass),
                  percent |-> IF answered THEN RoundPercent(moonProb) ELSE 0]
         call == [own |-> run.own, kind |-> run.kind, activeId |-> run.activeId,
                  name |-> run.name, capture |-> CaptureRecord(run.dataUrl, moonProb)]
         c == IF run.own THEN Finally([cam EXCEPT !.resultText = text])
              ELSE cam
         q == RemoveAt(predicts, i)
     IN IF pass /\ variant # "v3"
        THEN IF run.kind = "sendCapture"
             THEN HandleSend(call.capture, c, q, timers)
             ELSE HandleUnlock(call, ok, c, q, timers)
        ELSE /\ timers' = IF pass THEN Append(timers, call) ELSE timers
             /\ cam' = c
             /\ predicts' = q
             /\ UNCHANGED <<rows, clock, feedQ, unlocks, route, sendPhoto, reported,
                            streams>>
  /\ UNCHANGED <<variant, epoch, channels, userName, viewVars, activeMessage, recipient, loads, channel,
                 sends>>

\* the setTimeout callback of a verifyMoon run started on sendCapture
onVerifiedMoonSend(i) ==
  /\ i \in 1..Len(timers)
  /\ timers[i].kind = "sendCapture"
  /\ HandleSend(timers[i].capture, cam, predicts, RemoveAt(timers, i))
  /\ UNCHANGED <<variant, epoch, channels, userName, viewVars, activeMessage, recipient, loads, channel,
                 sends>>

\* the setTimeout callback of a verifyMoon run started on unlockCapture
onVerifiedMoonUnlock(i, ok) ==
  /\ i \in 1..Len(timers)
  /\ timers[i].kind = "unlockCapture"
  /\ HandleUnlock(timers[i], ok, cam, predicts, RemoveAt(timers, i))
  /\ UNCHANGED <<variant, epoch, channels, userName, viewVars, activeMessage, recipient, loads, channel,
                 sends>>

\* a catch that also clears the active message
UnlockSettles_DropsActiveOnFailure(i) ==
  /\ i \in 1..Len(unlocks)
  /\ unlocks' = RemoveAt(unlocks, i)
  /\ IF unlocks[i].ok
     THEN LET mapped == mapRowToMessage(Val(unlocks[i].row), unlocks[i].name)
          IN /\ activeMessage' = Some(mapped)
             /\ Render(ReplaceById(messages, mapped))
             /\ SetRoute("printing")
             /\ UNCHANGED reported
     ELSE /\ reported' = "unlock"
          /\ activeMessage' = Null
          /\ UNCHANGED <<viewVars, route, camVars>>
  /\ UNCHANGED <<variant, epoch, channels, storeVars, userName, draftVars, loads, feedVars, sends>>

\* the unlockCapture handler after its await: the returned row is merged, or the
\* catch alerts
UnlockSettles(i) ==
  /\ i \in 1..Len(unlocks)
  /\ unlocks' = RemoveAt(unlocks, i)
  /\ IF unlocks[i].ok
     THEN LET mapped == mapRowToMessage(Val(unlocks[i].row), unlocks[i].name)
          IN /\ activeMessage' = Some(mapped)
             /\ Render(ReplaceById(messages, mapped))
             /\ SetRoute("printing")
             /\ UNCHANGED reported
     ELSE /\ reported' = "unlock"
          /\ UNCHANGED <<viewVars, activeMessage, route, camVars>>
  /\ UNCHANGED <<variant, epoch, channels, storeVars, userName, draftVars, loads, feedVars, sends>>

----------------------------------------------------------------------------
(* The other clients of the same table, running the same app *)

\* a CaptureRecord verified on another device
RemoteCapture ==
  CaptureRecord(Some(<<Prediction(MOON_CLASS_NAME, 1000)>>), 1000)

\* handleSendMessage of another client: insertMessage with its verified sendPhoto
RemoteSend(sender, rcpt, body) ==
  /\ Len(rows) < MaxRows /\ clock < MaxTime
  /\ HasRoomForWrite(0)
  /\ LET row == insertMessage(rows, sender, rcpt, body, Some(RemoteCapture), clock + 1)
     IN /\ rows' = Append(rows, row)
        /\ feedQ' = Publish(feedQ, row)
  /\ clock' = clock + 1
  /\ UNCHANGED <<variant, epoch, channels, reported, userName, route, viewVars, activeMessage, draftVars, loads, channel,
                 sends, unlocks, camVars>>

\* the unlockCapture handler of another client, for a letter it opened while its
\* copy was locked: unlockMessage writes receive_at as new Date() of that
\* client's device, which reads now
RemoteUnlockAt(id, now) ==
  /\ id \in 1..Len(rows) /\ clock < MaxTime
  /\ HasRoomForWrite(0)
  /\ LET row == unlockMessage(rows[id], Some(RemoteCapture), now)
     IN /\ rows' = [rows EXCEPT ![id] = row]
        /\ feedQ' = Publish(feedQ, row)
  /\ clock' = clock + 1
  /\ UNCHANGED <<variant, epoch, channels, reported, userName, route, viewVars, activeMessage, draftVars, loads, channel,
                 sends, unlocks, camVars>>

\* the same with the device's clock in step with the table's
RemoteUnlock(id) == RemoteUnlockAt(id, clock + 1)

----------------------------------------------------------------------------
(* The specification of the app (lines 3335-3746, mounting the v3 camera):   *)
(* one session, from the onboarding screen on                               *)

\* the table as the app finds it: empty, or holding a letter another client sent
InitialTables ==
  {<<>>, <<insertMessage(<<>>, "Alice", "Bob", "hello", Some(RemoteCapture), 0)>>}

\* the frames the camera may show: one just under and one at the threshold
AppFrames ==
  { <<Prediction(MOON_CLASS_NAME, p)>> : p \in {MOON_THRESHOLD_v3 - 1, MOON_THRESHOLD_v3} }

\* the frames that show the moon
MoonFrames == { f \in AppFrames : Passes("v3", MoonProb("v3", predict(f))) }

Init ==
  /\ rows \in InitialTables
  /\ clock = 0
  /\ userName = ""
  /\ route = "onboarding"
  /\ messages = <<>>
  /\ sortedMessages = <<>>
  /\ activeMessage = Null
  /\ sendPhoto = Null
  /\ recipient = Null
  /\ loads = <<>>
  /\ channel = "none"
  /\ feedQ = <<>>
  /\ sends = <<>>
  /\ unlocks = <<>>
  /\ channels = {}
  /\ epoch = 0
  /\ reported = ""
  /\ variant = "v3"
  /\ cam = NoCam
  /\ predicts = <<>>
  /\ timers = <<>>
  /\ streams = [live |-> 0, strays |-> 0]

\* the session: the name is entered once
Session ==
  \/ \E n \in Names : userName = "" /\ UpdateName(n, TRUE)
  \/ Begin
  \/ ChannelJoined
  \/ \E i \in 1..MaxInFlight : LoadSettles(i)
  \/ FeedDelivers

Sending ==
  \/ handleStartSend
  \/ \E n \in Names : handleSelectRecipient(n)
  \/ \E b \in Bodies, ok \in BOOLEAN : handleSendMessage(b, ok)
  \/ \E i \in 1..MaxInFlight : SendSettles(i)
  \/ handleMessageSentComplete
  \/ \E i \in 1..MaxInFlight : onVerifiedMoonSend(i)

Unlocking ==
  \/ \E k \in 1..MaxRows : handleOpenMessage(k)
  \/ handlePrintingComplete
  \/ \E i \in 1..MaxInFlight : onVerifiedMoonUnlock(i, TRUE)
  \/ \E i \in 1..MaxInFlight : UnlockSettles(i)

\* the whole app with a camera that works and shows the moon; an insertMessage
\* or unlockMessage call may be rejected; the other clients unlock
Next ==
  \/ Session
  \/ Sending
  \/ Unlocking
  \/ \E i \in 1..MaxInFlight : onVerifiedMoonUnlock(i, FALSE)
  \/ \E r \in Routes : NavSelect(r)
  \/ Back
  \/ ModelLoadSettles(TRUE)
  \/ CameraSettles(TRUE)
  \/ \E f \in MoonFrames : takePhoto(f)
  \/ verifyMoon
  \/ \E i \in 1..MaxInFlight : PredictSettles(i, TRUE, TRUE)
  \/ \E id \in 1..MaxRows : RemoteUnlock(id)

Spec == Init /\ [][Next]_vars

\* the inbox and the unlock flow with every outcome of the camera and of the
\* fetchMessagesForUser and unlockMessage calls; the other clients send, as Alice
\* (the names being interchangeable), and unlock
NextUnlock ==
  \/ Session
  \/ \E n \in Names : userName = "" /\ UpdateName(n, FALSE)
  \/ Unlocking
  \/ \E i \in 1..MaxInFlight : onVerifiedMoonUnlock(i, FALSE)
  \/ \E r \in Routes : NavSelect(r)
  \/ Back
  \/ \E ok \in BOOLEAN : ModelLoadSettles(ok)
  \/ \E ok \in BOOLEAN : CameraSettles(ok)
  \/ \E f \in AppFrames : takePhoto(f)
  \/ retake
  \/ verifyMoon
  \/ \E i \in 1..MaxInFlight, answered \in BOOLEAN : PredictSettles(i, answered, TRUE)
  \/ \E r \in Names, b \in Bodies : RemoteSend("Alice", r, b)
  \/ \E id \in 1..MaxRows : RemoteUnlock(id)

SpecUnlock == Init /\ [][NextUnlock]_vars

\* the sessions of one device: the name is entered, changed on the onboarding
\* screen and dropped by onLogout, with the inbox and the unlock flow under a
\* camera that works and shows the moon; the other clients send and unlock
NextSession ==
  \/ \E n \in Names, ok \in BOOLEAN : UpdateName(n, ok)
  \/ Begin
  \/ Logout
  \/ ChannelJoined
  \/ \E i \in 1..MaxInFlight : LoadSettles(i)
  \/ FeedDelivers
  \/ Unlocking
  \/ Back
  \/ ModelLoadSettles(TRUE)
  \/ CameraSettles(TRUE)
  \/ \E f \in MoonFrames : takePhoto(f)
  \/ verifyMoon
  \/ \E i \in 1..MaxInFlight : PredictSettles(i, TRUE, TRUE)
  \/ \E r \in Routes : NavSelect(r)
  \/ \E r \in Names, b \in Bodies : RemoteSend("Alice", r, b)
  \/ \E id \in 1..MaxRows : RemoteUnlock(id)

SpecSession == Init /\ [][NextSession]_vars

----------------------------------------------------------------------------
(* The specification of MoonCameraCapture: each of the three copies, mounted *)
(* on sendCapture, with every outcome of its model, camera and predict calls *)

NotMoon == <<"N", "o", "t", " ", "M", "o", "o", "n">>
Moons == <<"M", "o", "o", "n", "s">>
MoonSpellings == {MOON_CLASS_NAME, toLowerCase(MOON_CLASS_NAME), <<"M", "O", "O", "N">>}

\* probabilities around the three thresholds
CamProbabilities ==
  {0, 1000} \cup UNION { {MOON_THRESHOLD(v) - 1, MOON_THRESHOLD(v)} : v \in Variants }

\* frames whose predictions hold the label alone, the label in another spelling,
\* the label behind another class, or no such label
CamFrames ==
  { <<Prediction(MOON_CLASS_NAME, p)>> : p \in CamProbabilities }
  \cup { <<Prediction(l, 1000)>> : l \in MoonSpellings }
  \cup { <<Prediction(NotMoon, 1000 - p), Prediction(MOON_CLASS_NAME, p)>> : p \in {0, 1000} }
  \cup { <<Prediction(NotMoon, 1000)>>, <<Prediction(Moons, 1000)>>, <<>> }

InitCam ==
  /\ rows = <<>>
  /\ clock = 0
  /\ userName = "Alice"
  /\ route = "sendCapture"
  /\ messages = <<>>
  /\ sortedMessages = <<>>
  /\ activeMessage = Null
  /\ sendPhoto = Null
  /\ recipient = Null
  /\ loads = <<>>
  /\ channel = "joined"
  /\ feedQ = <<>>
  /\ sends = <<>>
  /\ unlocks = <<>>
  /\ channels = {1}
  /\ epoch = 1
  /\ reported = ""
  /\ variant \in Variants
  /\ cam = MountedCam
  /\ predicts = <<>>
  /\ timers = <<>>
  /\ streams = [live |-> 0, strays |-> 0]

NextCam ==
  \/ \E ok \in BOOLEAN : ModelLoadSettles(ok)
  \/ \E ok \in BOOLEAN : CameraSettles(ok)
  \/ \E f \in CamFrames : takePhoto(f)
  \/ retake
  \/ verifyMoon
  \/ \E i \in 1..MaxInFlight, answered \in BOOLEAN : PredictSettles(i, answered, TRUE)
  \/ \E i \in 1..MaxInFlight : onVerifiedMoonSend(i)
  \/ Back
  \/ CameraPlayFails
  \/ \E ok \in BOOLEAN : StrayCameraSettles(ok)

SpecCam == InitCam /\ [][NextCam]_vars

\* the same with every predict call settling: a promise that is pending is
\* eventually resolved or rejected
SpecCamFair ==
  SpecCam /\ WF_vars(\E i \in 1..MaxInFlight, answered \in BOOLEAN :
                       PredictSettles(i, answered, TRUE))

----------------------------------------------------------------------------
(* The specification of the two clocks: created_at is the table's time,      *)
(* receive_at the time of the unlocking device, which need not agree         *)

\* the times the clock of another device may show
DeviceTimes == 0..MaxTime

NextClock ==
  \/ Session
  \/ \E r \in Names, b \in Bodies : RemoteSend("Alice", r, b)
  \/ \E id \in 1..MaxRows, now \in DeviceTimes : RemoteUnlockAt(id, now)

SpecClock == Init /\ [][NextClock]_vars

----------------------------------------------------------------------------
(* The specification of the postgres_changes handler: every collection and   *)
(* every pair of events of a small table, for both viewers                  *)

\* the rows of the table: two letters sent at the same time, a later one
MergeTable ==
  LET r1 == insertMessage(<<>>, "Alice", "Bob", "hello", Some(RemoteCapture), 0)
      r2 == insertMessage(<<r1>>, "Alice", "Alice", "hello", Some(RemoteCapture), 0)
      r3 == insertMessage(<<r1, r2>>, "Bob", "Alice", "hello", Null, 1)
  IN <<r1, r2, r3>>

\* the versions of the rows the channel may carry, and an event without payload.new
MergeEvents ==
  {Null} \cup { Some(MergeTable[i]) : i \in 1..3 }
         \cup { Some(unlockMessage(MergeTable[i], Some(RemoteCapture), 2)) : i \in 1..3 }

MaxHeld == 2

\* the collections a viewer may hold: any versions, in any order, twice or not
MergeCollections(viewer) ==
  LET held == { mapRowToMessage(Val(e), viewer) :
                  e \in { x \in MergeEvents \ {Null} :
                            Val(x).sender = viewer \/ Val(x).recipient = viewer } }
  IN UNION { [1..n -> held] : n \in 0..MaxHeld }

InitMerge ==
  /\ rows = MergeTable
  /\ clock = 2
  /\ userName \in Names
  /\ route = "inbox"
  /\ messages \in MergeCollections(userName)
  /\ sortedMessages = SortBySentDesc(messages)
  /\ activeMessage = Null
  /\ sendPhoto = Null
  /\ recipient = Null
  /\ loads = <<>>
  /\ channel = "joined"
  /\ feedQ \in [1..2 -> MergeEvents]
  /\ sends = <<>>
  /\ unlocks = <<>>
  /\ channels = {1}
  /\ epoch = 1
  /\ reported = ""
  /\ variant = "v3"
  /\ cam = NoCam
  /\ predicts = <<>>
  /\ timers = <<>>
  /\ streams = [live |-> 0, strays |-> 0]

NextMerge == FeedDelivers

SpecMerge == InitMerge /\ [][NextMerge]_vars

----------------------------------------------------------------------------
(* Properties of the message lifecycle *)

RowIds == 1..Len(rows)

\* C1: a message is unlocked at most once: once its stored row has locked = FALSE,
\* no later unlock call changes the row's locked, receive_photo or receive_at
C1_UnlockedAtMostOnce ==
  [][\A id \in RowIds :
       ~rows[id].locked =>
          /\ rows'[id].locked = rows[id].locked
          /\ rows'[id].receive_photo = rows[id].receive_photo
          /\ rows'[id].receive_at = rows[id].receive_at]_vars

\* C2: in the table and in the local collection a message is locked exactly when it
\* has no receive photo: locked implies receivePhoto = null, and no message is
\* unlocked without a receivePhoto
C2_LockedIffNoReceivePhoto ==
  /\ \A id \in RowIds : rows[id].locked <=> IsNull(rows[id].receive_photo)
  /\ \A i \in 1..Len(messages) : messages[i].locked <=> IsNull(messages[i].receivePhoto)

\* C2, reached: the collection holds a letter this client unlocked with its own frame
C2_Witness ==
  \E i \in 1..Len(messages) :
    /\ ~messages[i].locked
    /\ ~IsNull(messages[i].receivePhoto)
    /\ messages[i].receivePhoto # Some(RemoteCapture)

\* C3: for every message of the local collection, archived = (receivePhoto # null)
\* and (receiveAt # null) = (receivePhoto # null)
C3_ArchivedIffReceived ==
  \A i \in 1..Len(messages) :
    /\ messages[i].archived <=> ~IsNull(messages[i].receivePhoto)
    /\ ~IsNull(messages[i].receiveAt) <=> ~IsNull(messages[i].receivePhoto)

\* C3, reached: the unlock handler has merged the row it unlocked, archived and
\* with its receiveAt, and shows it on the printing screen
C3_Witness ==
  /\ route = "printing"
  /\ ~IsNull(activeMessage)
  /\ \E i \in 1..Len(messages) :
       /\ messages[i] = Val(activeMessage)
       /\ messages[i].archived
       /\ ~IsNull(messages[i].receiveAt)

\* the fields of a row that identify the letter
Identity(row) ==
  <<row.id, row.sender, row.recipient, row.body, row.created_at, row.send_photo>>

\* the same in a local message
LocalIdentity(m) == <<m.id, m.rawSender, m.rawRecipient, m.body, m.sentAt, m.sendPhoto>>

\* no step changes the identity of a stored row, and every local message carries
\* the identity of its row
C4_IdentityKept ==
  /\ \A id \in RowIds : id \in 1..Len(rows') /\ Identity(rows'[id]) = Identity(rows[id])
  /\ \A i \in 1..Len(messages') :
       LocalIdentity(messages'[i]) = Identity(rows'[messages'[i].id])

\* a step that changes a stored row changes locked, receive_photo and receive_at,
\* the three together
C4_JointChange ==
  \A id \in RowIds :
    rows'[id] # rows[id] =>
      /\ rows'[id].locked # rows[id].locked
      /\ rows'[id].receive_photo # rows[id].receive_photo
      /\ rows'[id].receive_at # rows[id].receive_at

\* C4: id, sender, recipient, body, sentAt and sendPhoto of a message never change
\* after creation, and an unlock changes locked, receivePhoto and receiveAt, all
\* three together in one step
C4_FrameOfUnlock == [][C4_IdentityKept /\ C4_JointChange]_vars

\* the capture was emitted by a verifyMoon run that passed: its confidence is the
\* probability the model gives the label on its frame, and reaches the threshold
Verified(capture) ==
  /\ ~IsNull(capture.dataUrl)
  /\ capture.confidence = MoonProb(variant, predict(Val(capture.dataUrl)))
  /\ capture.confidence >= MOON_THRESHOLD(variant)

----------------------------------------------------------------------------
(* Properties of verifyMoon *)

\* the smallest element of a non-empty set of numbers
Least(S) == CHOOSE i \in S : \A j \in S : i <= j

\* the probability predicted for the target label: that of the first prediction
\* whose label is the target label up to case, 0 without one
TargetProbability(predictions) ==
  LET hits == {i \in 1..Len(predictions) :
                 toLowerCase(predictions[i].className) = toLowerCase(MOON_CLASS_NAME)}
  IN IF hits = {} THEN 0 ELSE predictions[Least(hits)].probability

\* this step ends the verifyMoon run predicts[i]
Settles(i) ==
  /\ i \in 1..Len(predicts)
  /\ Len(predicts') = Len(predicts) - 1
  /\ \/ predicts' = RemoveAt(predicts, i)
     \/ predicts' = Disown(RemoveAt(predicts, i))

\* this step hands capture to onVerifiedMoon: at once in v1 and v4, whose handler
\* stores it and leaves the screen, through the timer in v3
Emits(capture) ==
  IF variant = "v3"
  THEN /\ Len(timers') = Len(timers) + 1
       /\ timers'[Len(timers')].capture = capture
  ELSE /\ sendPhoto' = Some(capture)
       /\ route' = "selectRecipient"

EmitsNothing == timers' = timers /\ sendPhoto' = sendPhoto /\ route' = route

\* what the end of a run shows: a failure of predict, a CaptureRecord with the
\* observed probability when it reaches the threshold, a rejection with the
\* observed percentage below it; a run whose component is gone shows no text
GatedOutcome(run) ==
  LET p == TargetProbability(predict(Val(run.dataUrl)))
      capture == CaptureRecord(run.dataUrl, p)
  IN IF run.own
     THEN \/ cam'.resultText.kind = "failed" /\ EmitsNothing
          \/ /\ p >= MOON_THRESHOLD(variant)
             /\ Emits(capture)
             /\ cam'.mounted => cam'.resultText = [kind |-> "verified",
                                                   percent |-> RoundPercent(p)]
          \/ /\ p < MOON_THRESHOLD(variant)
             /\ EmitsNothing
             /\ cam'.resultText = [kind |-> "rejected", percent |-> RoundPercent(p)]
     ELSE \/ EmitsNothing
          \/ p >= MOON_THRESHOLD(variant) /\ Emits(capture)

\* C6: in v1 and v3, verifyMoon emits a CaptureRecord, with confidence equal to the
\* observed probability, exactly when the probability predicted for the target
\* label is >= the threshold, the threshold itself included; below it nothing is
\* emitted and the rejection carries the observed percentage
C6_EmitsIffAtLeastThreshold ==
  [][(variant \in {"v1", "v3"} /\ Len(predicts') < Len(predicts)) =>
        \E i \in 1..Len(predicts) : Settles(i) /\ GatedOutcome(predicts[i])]_vars

\* C6, reached: a capture emitted with a probability exactly at the threshold
C6_Witness ==
  /\ variant \in {"v1", "v3"}
  /\ ~IsNull(sendPhoto)
  /\ Val(sendPhoto).confidence = MOON_THRESHOLD(variant)
  /\ route = "selectRecipient"

\* the end of a run of a mounted component reports the probability of the label
\* chosen up to case: as the percentage of its text, or as the confidence of the
\* capture its handler stored
SelectsTargetLabel(run) ==
  LET p == TargetProbability(predict(Val(run.dataUrl)))
  IN \/ ~run.own
     \/ cam'.resultText.kind = "failed"
     \/ /\ cam'.mounted
        /\ cam'.resultText.percent = RoundPercent(p)
        /\ cam'.resultText.kind = "rejected" <=> p < MOON_THRESHOLD(variant)
     \/ /\ ~cam'.mounted
        /\ sendPhoto' = Some(CaptureRecord(run.dataUrl, p))

\* C7: in every copy of MoonCameraCapture, verifyMoon takes the probability of the
\* prediction whose label equals the target label up to case (never a substring),
\* wherever it sits in the list, and 0, a rejection, without such a prediction
C7_CaseInsensitiveLabel ==
  [][Len(predicts') < Len(predicts) =>
        \E i \in 1..Len(predicts) : Settles(i) /\ SelectsTargetLabel(predicts[i])]_vars

----------------------------------------------------------------------------
(* Properties of the local collection *)

\* how often m occurs in s
Count(m, s) == Cardinality({i \in 1..Len(s) : s[i] = m})

\* C8: sortedMessages holds exactly the held messages, ordered by sentAt descending
C8_SortedViewOfHeld ==
  /\ Len(sortedMessages) = Len(messages)
  /\ \A i \in 1..Len(messages) :
       Count(messages[i], sortedMessages) = Count(messages[i], messages)
  /\ \A i, j \in 1..Len(sortedMessages) :
       i < j => sortedMessages[i].sentAt >= sortedMessages[j].sentAt

\* C8, reached: the collection is held out of order, an older letter before a
\* newer one
C8_Witness ==
  \E i, j \in 1..Len(messages) : i < j /\ messages[i].sentAt < messages[j].sentAt

\* C9: merging a change-feed event twice in a row yields the same collection, and
\* the same sorted output, as merging it once
C9_MergeIdempotent ==
  \A e \in MergeEvents :
    LET once == ApplyChange(messages, e, userName)
        twice == ApplyChange(once, e, userName)
    IN twice = once /\ SortBySentDesc(twice) = SortBySentDesc(once)

\* C9, reached: an event was merged by prepending its row to a full collection, and
\* the same event is the next the channel delivers
C9_Witness ==
  /\ Len(feedQ) = 1
  /\ ~IsNull(Head(feedQ))
  /\ Len(messages) = MaxHeld + 1
  /\ messages[1] = mapRowToMessage(Val(Head(feedQ)), userName)

\* the event has no new row, or a row the viewer neither sent nor receives
Foreign(e, viewer) ==
  IsNull(e) \/ (Val(e).sender # viewer /\ Val(e).recipient # viewer)

\* C10: a change-feed event whose row has neither sender = viewer nor
\* recipient = viewer, or that has no new row, leaves the collection unchanged
C10_ForeignEventIgnored ==
  [][(feedQ # <<>> /\ feedQ' = Tail(feedQ) /\ Foreign(Head(feedQ), userName)) =>
        (messages' = messages /\ sortedMessages' = sortedMessages)]_vars

\* C10, reached: after one delivery the channel holds the row of a letter between
\* others, and the viewer holds letters
C10_Witness ==
  /\ Len(feedQ) = 1
  /\ ~IsNull(Head(feedQ))
  /\ Foreign(Head(feedQ), userName)
  /\ messages # <<>>

----------------------------------------------------------------------------
(* Properties of the store: merging, loading, cancellation and failures *)

\* C11: when the channel delivers an event whose row involves the viewer: if a
\* held message has the id of the row, one such entry becomes the projection of
\* the row, in place, the length and every other entry being unchanged; otherwise
\* the projection is added, the length growing by exactly one and the entries
\* held before being kept in their order
C11_ReplaceInPlaceOrInsert ==
  [][ (feedQ # <<>> /\ feedQ' = Tail(feedQ) /\ ~Foreign(Head(feedQ), userName)) =>
        LET mapped == mapRowToMessage(Val(Head(feedQ)), userName)
            hits == {i \in 1..Len(messages) : messages[i].id = mapped.id}
        IN IF hits # {}
           THEN /\ Len(messages') = Len(messages)
                /\ \E k \in hits :
                     /\ messages'[k] = mapped
                     /\ \A j \in 1..Len(messages) : j # k => messages'[j] = messages[j]
           ELSE /\ Len(messages') = Len(messages) + 1
                /\ \E k \in 1..Len(messages') :
                     /\ messages'[k] = mapped
                     /\ RemoveAt(messages', k) = messages ]_vars

\* C11, reached: both events were delivered to a viewer who held MaxHeld letters
\* and now holds one more, the added one being the unlocked version of its row:
\* an event added an entry, and the collection holds the latest version
C11_Witness ==
  /\ feedQ = <<>>
  /\ Len(messages) = MaxHeld + 1
  /\ \E i \in 1..Len(messages) :
       /\ ~messages[i].locked
       /\ \A j \in 1..Len(messages) : j # i => messages[j].id # messages[i].id

\* the rows of the table that involve the viewer
ViewerRowIds == {id \in RowIds : rows[id].sender = userName \/ rows[id].recipient = userName}

\* the load of the current run of the effect has completed: a name is entered, no
\* call of the current run is pending and no fetchMessagesForUser call was rejected
LoadCompleted ==
  /\ userName # ""
  /\ reported # "load"
  /\ \A i \in 1..Len(loads) : ~loads[i].alive

\* C12: no update is lost: once the load of the viewer has completed, the channel
\* is open and every event it carries has been delivered, the collection holds
\* every row of the table that involves the viewer, in its latest stored state
C12_NoUpdateLost ==
  (LoadCompleted /\ channel = "joined" /\ feedQ = <<>>) =>
    \A id \in ViewerRowIds :
      \E i \in 1..Len(messages) : messages[i] = mapRowToMessage(rows[id], userName)

\* C13: the response of a fetchMessagesForUser call that arrives after the run of
\* the effect that issued it has ended (the name was changed, or dropped by
\* onLogout) is discarded: it changes neither messages nor sortedMessages
C13_StaleLoadDiscarded ==
  [][ \A i \in 1..Len(loads) :
        (loads' = RemoveAt(loads, i) /\ loads[i].epoch # epoch) =>
          (messages' = messages /\ sortedMessages' = sortedMessages) ]_vars

\* C13, reached: Bob's name replaced Alice's, Bob's call is still pending, and the
\* call issued for Alice, whose answer held her letter (the table was not written
\* since), has settled without filling the collection
C13_Witness ==
  /\ userName = "Bob" /\ epoch = 2
  /\ Len(loads) = 1 /\ loads[1].epoch = 2
  /\ clock = 0
  /\ \E id \in RowIds : rows[id].sender = "Alice"
  /\ messages = <<>>

\* the step hands nothing to the app: no sendPhoto is set, no unlockMessage call
\* is issued or reaches the table, and the route stays
HandsNothingOver ==
  /\ sendPhoto' = sendPhoto
  /\ unlocks' = unlocks
  /\ rows' = rows
  /\ route' = route

\* C14: when the MoonCameraCapture that started a verifyMoon run has been
\* unmounted (Back, or any other change of route) while predict was pending or
\* during the delay before onVerifiedMoon, the run hands nothing over: neither the
\* end of its predict call nor its timer sets sendPhoto, issues unlockMessage or
\* changes the route
C14_DeadSessionDiscarded ==
  [][ /\ \A i \in 1..Len(timers) :
           (~timers[i].own /\ (onVerifiedMoonSend(i)
                                \/ \E ok \in BOOLEAN : onVerifiedMoonUnlock(i, ok)))
             => HandsNothingOver
      /\ \A i \in 1..Len(predicts) :
           (~predicts[i].own /\ \E answered, ok \in BOOLEAN : PredictSettles(i, answered, ok))
             => HandsNothingOver ]_vars

\* C15: the response of an insertMessage or unlockMessage call that arrives after
\* the viewer context it was issued under has ended (the name was changed, or
\* dropped by onLogout) is discarded: it changes neither the collection nor the
\* active message nor the route
C15_StaleWriteDiscarded ==
  [][ /\ \A i \in 1..Len(sends) :
           (sends[i].epoch # epoch /\ SendSettles(i)) =>
             (messages' = messages /\ activeMessage' = activeMessage /\ route' = route)
      /\ \A i \in 1..Len(unlocks) :
           (unlocks[i].epoch # epoch /\ UnlockSettles(i)) =>
             (messages' = messages /\ activeMessage' = activeMessage /\ route' = route)
    ]_vars

\* the number of pending calls of q that will be rejected
Rejected(q) == Cardinality({i \in 1..Len(q) : ~q[i].ok})

\* C16: when a fetchMessagesForUser call is rejected, the collection stays as it
\* was, no new call is issued in its place, and the channel, its queue and the
\* rest of the state of the app stay as they were
C16_FailedLoadLeavesStore ==
  [][ Rejected(loads') < Rejected(loads) =>
        /\ messages' = messages /\ sortedMessages' = sortedMessages
        /\ Len(loads') = Len(loads) - 1
        /\ channel' = channel /\ feedQ' = feedQ
        /\ <<userName, route, activeMessage, sendPhoto, recipient, sends, unlocks>>'
             = <<userName, route, activeMessage, sendPhoto, recipient, sends, unlocks>>
    ]_vars

\* C16, reached: the fetch of the viewer was rejected, and the channel opened with
\* it has since brought the viewer a letter
C16_Witness ==
  /\ reported = "load"
  /\ loads = <<>>
  /\ channel = "joined"
  /\ messages # <<>>

\* C17: when an insertMessage or unlockMessage call is rejected, the collection,
\* every message it holds, the active message and the route stay as they were
C17_FailedWriteLeavesStore ==
  [][ (Rejected(sends') < Rejected(sends) \/ Rejected(unlocks') < Rejected(unlocks)) =>
        /\ messages' = messages /\ sortedMessages' = sortedMessages
        /\ activeMessage' = activeMessage
        /\ route' = route ]_vars

\* C17, reached: a rejected unlockMessage call has been reported while the viewer
\* waits on the capture screen with the letter still held locked
C17_Witness ==
  /\ reported = "unlock"
  /\ route = "unlockCapture"
  /\ ~IsNull(activeMessage)
  /\ \E i \in 1..Len(messages) :
       messages[i].id = Val(activeMessage).id /\ messages[i].locked

\* what a load by viewer returns from table: the projections of the fetched rows
Load(table, viewer) ==
  LET Project(r) == mapRowToMessage(r, viewer)
  IN SeqMap(Project, fetchMessagesForUser(table, viewer))

\* C18: round trip of a send.  Once handleSendMessage has inserted its row, a load
\* by the recipient returns a message with the body, sender and sendPhoto sent,
\* locked, with receivePhoto and receiveAt null; and when the call resolves, the
\* collection of the sender holds the projection of the returned row, which is
\* the row the table holds under that id
C18_SendRoundTrip ==
  [][ /\ \A b \in Bodies :
           handleSendMessage(b, TRUE) =>
             LET loaded == Load(rows', Val(recipient))
             IN \E k \in 1..Len(loaded) :
                  /\ loaded[k].id = Len(rows')
                  /\ loaded[k].body = b
                  /\ loaded[k].rawSender = userName
                  /\ loaded[k].sendPhoto = sendPhoto
                  /\ loaded[k].locked
                  /\ IsNull(loaded[k].receivePhoto)
                  /\ IsNull(loaded[k].receiveAt)
      /\ \A i \in 1..Len(sends) :
           (sends[i].ok /\ SendSettles(i)) =>
             LET row == Val(sends[i].row)
             IN /\ Identity(row) = Identity(rows[row.id])
                /\ \E k \in 1..Len(messages') :
                     messages'[k] = mapRowToMessage(row, sends[i].sender) ]_vars

\* C18, reached: the send has resolved, the sender is shown the sent letter, which
\* the collection holds first, and a load by the recipient returns it locked
C18_Witness ==
  /\ route = "messageSent"
  /\ sends = <<>>
  /\ \E id \in RowIds :
       /\ rows[id].sender = userName
       /\ messages # <<>> /\ messages[1] = mapRowToMessage(rows[id], userName)
       /\ activeMessage = Some(messages[1])
       /\ \E k \in 1..Len(Load(rows, rows[id].recipient)) :
            LET m == Load(rows, rows[id].recipient)[k]
            IN m.id = id /\ m.body = "hello" /\ m.locked /\ IsNull(m.receivePhoto)

\* C19: when an unlockMessage call resolves, the collection holds an entry for the
\* id of the returned row that is the viewer's projection of that row, whatever
\* load or feed activity happened while the call was pending
C19_UnlockMergesReturnedRow ==
  [][ \A i \in 1..Len(unlocks) :
        (unlocks[i].ok /\ UnlockSettles(i)) =>
          \E k \in 1..Len(messages') :
            messages'[k] = mapRowToMessage(Val(unlocks[i].row), userName) ]_vars

\* C20: unlockMessage is called for a letter only while the collection holds that
\* letter locked: at the call, some held message has the id of the call and is
\* locked with no receivePhoto
C20_UnlockOnlyIfHeldLocked ==
  [][ \A i \in 1..Len(timers) :
        (timers[i].kind = "unlockCapture" /\ ~IsNull(timers[i].activeId)
         /\ \E ok \in BOOLEAN : onVerifiedMoonUnlock(i, ok)) =>
          \E k \in 1..Len(messages) :
            /\ messages[k].id = Val(timers[i].activeId)
            /\ messages[k].locked
            /\ IsNull(messages[k].receivePhoto) ]_vars

----------------------------------------------------------------------------
(* Properties of the sessions and of the camera *)

\* C21: every channel opened for a viewer is removed when that viewer context
\* ends: at most one channel is registered at any time, none while the viewer
\* name is empty, and the only channel registered is the one of the current run
\* of the effect, so that no event is handed to the handler of an ended run and
\* no event queued for an ended run is left to be applied
C21_ChannelRemovedWithContext ==
  /\ Cardinality(channels) <= 1
  /\ userName = "" => channels = {} /\ channel = "none" /\ feedQ = <<>>
  /\ channels \subseteq {epoch}
  /\ channel # "none" <=> channels = {epoch}
  /\ feedQ # <<>> => channel = "joined" /\ channels = {epoch}

\* a second viewer context has opened its channel after the first one, which had
\* an event queued, ended
C21_Witness ==
  /\ epoch >= 2
  /\ userName # ""
  /\ channels = {epoch}
  /\ channel = "joined"
  /\ feedQ # <<>>

\* the streams running that the mounted component holds in its stream cell, which
\* its unmount stops
Held == IF cam.mounted /\ cam.stream THEN 1 ELSE 0

\* C22: no camera handle is leaked in any variant: every stream obtained whose
\* tracks are not stopped is the one held by the mounted component, so that
\* after an unmount, a failure or a late getUserMedia no stream is left running
C22_NoStreamLeaked == streams.live = Held

\* C22 for the variants of lines 109-451 and 2156-2589
C22_NoStreamLeakedV1V3 == variant # "v4" => streams.live = Held

\* a component that failed after its stream was obtained has been unmounted
C22_WitnessV1V3 ==
  /\ variant # "v4"
  /\ ~cam.mounted
  /\ streams.live = 0
  /\ route = "inbox"

\* C23: the stream-restarting component holds at most one running stream: while
\* a stream is being requested, at mount or after a retake, the one held before
\* is already stopped, whenever getUserMedia completes
C23_OneLiveStream ==
  variant = "v3" =>
    /\ streams.live <= 1
    /\ cam.mounted /\ cam.cameraStarting => streams.live = 0

\* a retake made while a verifyMoon run was pending has restarted the camera and
\* the new stream is in use
C23_Witness ==
  /\ variant = "v3"
  /\ cam.mounted /\ cam.stream /\ cam.cameraReady
  /\ IsNull(cam.capturedDataUrl)
  /\ \E i \in 1..Len(predicts) : predicts[i].own
  /\ streams.live = 1

\* Ready: the model load and the camera acquisition have both completed
\* successfully and no frame is held
Ready ==
  /\ cam.mounted
  /\ ~cam.modelLoading /\ cam.model
  /\ ~cam.cameraStarting /\ cam.stream
  /\ ~hasError
  /\ IsNull(cam.capturedDataUrl)

\* a frame is taken in this step
TakesPhoto == IsNull(cam.capturedDataUrl) /\ ~IsNull(cam'.capturedDataUrl)

\* C24: in the variants of lines 109-451 and 2156-2589 a frame is taken only in
\* Ready, never while the camera acquisition is pending
C24_TakePhotoOnlyWhenReady ==
  [][(variant \in {"v1", "v3"} /\ TakesPhoto) => (Ready)]_vars

\* C24 for the variant of lines 2156-2589
C24_TakePhotoOnlyWhenReadyV3 == [][(variant = "v3" /\ TakesPhoto) => (Ready)]_vars

\* Failed: the model load or the camera acquisition of the mounted component
\* has failed
Failed == cam.mounted /\ hasError

\* the step stays in the session of the mounted component
SameSession == cam.mounted /\ cam'.mounted /\ route' = route

\* onVerifiedMoon of sendCapture is called by a run of the mounted component
EmitsToSend == cam.mounted /\ route = "sendCapture" /\ route' = "selectRecipient"

\* C25: Failed is terminal for the session: the error stays, no frame is taken
\* or dropped, no verifyMoon run is started, neither acquisition is started
\* again, and no CaptureRecord is handed over
C25_FailedIsTerminal ==
  [][(variant = "v3" /\ Failed) =>
       /\ ~EmitsToSend
       /\ SameSession =>
            /\ cam'.cameraError \/ cam'.modelError
            /\ cam'.capturedDataUrl = cam.capturedDataUrl
            /\ Len(predicts') <= Len(predicts)
            /\ cam'.cameraStarting => cam.cameraStarting
            /\ cam'.modelLoading => cam.modelLoading]_vars

\* Captured: the mounted component holds a frame and shows no error
Captured == cam.mounted /\ ~hasError /\ ~IsNull(cam.capturedDataUrl)

\* the Verify button is rendered and enabled
CanVerify == Captured /\ ~cam.verifying /\ ~cam.modelLoading

\* the Retake button is rendered
CanRetake == Captured

\* C26: when predict throws in a run of the component that holds a frame, the
\* outcome is an inference failure, not a rejection: nothing is handed to
\* onVerifiedMoon, the frame is kept, verifying returns to false, and both
\* Verify and Retake are available
C26_InferenceFailureKeepsFrame ==
  [][\A i \in 1..MaxInFlight :
       (PredictSettles(i, FALSE, TRUE) /\ predicts[i].own /\ Captured) =>
          /\ EmitsNothing
          /\ cam'.resultText.kind = "failed"
          /\ cam'.capturedDataUrl = cam.capturedDataUrl
          /\ ~cam'.verifying
          /\ CanVerify' /\ CanRetake']_vars

\* predict threw in a run of the mounted component: the failure text is shown
\* with the frame held and the buttons available
C26_Witness ==
  /\ cam.mounted
  /\ cam.resultText.kind = "failed"
  /\ CanVerify /\ CanRetake

----------------------------------------------------------------------------
(* Properties of the views *)

\* the fields the projection copies from the row
CopiesRow(m, row) ==
  /\ m.id = row.id
  /\ m.body = row.body
  /\ m.locked = row.locked
  /\ m.sentAt = row.created_at
  /\ m.receiveAt = row.receive_at
  /\ m.sendPhoto = row.send_photo
  /\ m.receivePhoto = row.receive_photo

\* C27: for every row of the table and every viewer, mapRowToMessage yields
\* from = "You" and to = recipient when the viewer is the sender, from = sender
\* and to = "You" otherwise; the sender and a different recipient get the two
\* symmetric views; id, body, locked, sentAt, receiveAt, sendPhoto and
\* receivePhoto are the row's
C27_ViewerProjection ==
  \A id \in 1..Len(rows) :
    LET row == rows[id]
    IN /\ \A viewer \in Names :
            LET m == mapRowToMessage(row, viewer)
            IN /\ row.sender = viewer => m.from = "You" /\ m.to = row.recipient
               /\ row.sender # viewer => m.from = row.sender /\ m.to = "You"
               /\ CopiesRow(m, row)
       /\ row.sender # row.recipient =>
            LET s == mapRowToMessage(row, row.sender)
                r == mapRowToMessage(row, row.recipient)
            IN /\ s.from = "You" /\ s.to = row.recipient
               /\ r.from = row.sender /\ r.to = "You"
               /\ CopiesRow(s, row) /\ CopiesRow(r, row)

\* the recipient holds the projection of an unlocked letter of the table, which
\* its sender would see as sent
C27_Witness ==
  \E i \in 1..Len(messages) :
    /\ messages[i].id \in 1..Len(rows)
    /\ messages[i] = mapRowToMessage(rows[messages[i].id], userName)
    /\ messages[i].from # "You"
    /\ ~messages[i].locked
    /\ rows[messages[i].id].sender # userName

\* the rows this step takes into the collection of viewer: the rows of a load
\* that is applied, or the row of the event the channel delivers
Arrives(row, viewer) ==
  \/ \E i \in 1..Len(loads) :
       /\ LoadSettles(i)
       /\ loads[i].ok /\ loads[i].alive /\ loads[i].viewer = viewer
       /\ \E k \in 1..Len(loads[i].data) : loads[i].data[k] = row
  \/ /\ FeedDelivers
     /\ userName = viewer
     /\ Head(feedQ) = Some(row)

\* the inbox lists the letter id as pending, locked, from sender
ListedPending(list, id, sender) ==
  \E k \in 1..Len(Pending(list)) :
    LET m == Pending(list)[k]
    IN m.id = id /\ m.locked /\ m.from = sender

\* the inbox lists the letter id under Sent with a receivePhoto and "Opened"
ListedOpened(list, id) ==
  /\ \E k \in 1..Len(Sent(list)) : Sent(list)[k].id = id
  /\ \A k \in 1..Len(list) :
       list[k].id = id =>
         /\ list[k].from = "You"
         /\ ~IsNull(list[k].receivePhoto)
         /\ SentStatus(list[k]) = "Opened"

\* m is shown unlocked, with its receivePhoto, archived
ShownUnlocked(m) == ~m.locked /\ ~IsNull(m.receivePhoto) /\ m.archived

\* C28: end to end.  A locked letter of another sender that arrives by load or by
\* the feed is listed as pending and locked from its sender; when the unlock of
\* the recipient succeeds, the view shows the message unlocked, with its
\* receivePhoto, archived, and no longer lists it as pending; when the unlocked
\* row arrives at its sender, by the feed or by a load, the sender's view lists
\* it with its receivePhoto and the status "Opened"
C28_EndToEnd ==
  [][/\ \A id \in 1..MaxRows, row \in {rows[j] : j \in 1..Len(rows)} :
          (/\ row.id = id /\ row.sender # userName /\ row.recipient = userName
           /\ row.locked /\ IsNull(row.receive_photo)
           /\ Arrives(row, userName))
          => ListedPending(sortedMessages', id, row.sender)
     /\ \A i \in 1..MaxInFlight :
          (UnlockSettles(i) /\ unlocks[i].ok) =>
             LET id == Val(unlocks[i].row).id
             IN /\ ShownUnlocked(Val(activeMessage'))
                /\ Val(activeMessage').id = id
                /\ \A k \in 1..Len(sortedMessages') :
                     sortedMessages'[k].id = id => ShownUnlocked(sortedMessages'[k])
                /\ \A k \in 1..Len(Pending(sortedMessages')) :
                     Pending(sortedMessages')[k].id # id
     /\ \A id \in 1..MaxRows, row \in {rows[j] : j \in 1..Len(rows)} :
          (/\ row.id = id /\ row.sender = userName
           /\ ~IsNull(row.receive_photo)
           /\ Arrives(row, userName))
          => ListedOpened(sortedMessages', id)]_vars

\* the recipient's unlock has succeeded: the printing screen shows the letter of
\* another sender unlocked, the collection holds it archived, and it is not
\* listed as pending
C28_Witness ==
  /\ route = "printing"
  /\ ~IsNull(activeMessage)
  /\ ShownUnlocked(Val(activeMessage))
  /\ Val(activeMessage).from # "You"
  /\ \E k \in 1..Len(sortedMessages) :
       /\ sortedMessages[k].id = Val(activeMessage).id
       /\ ShownUnlocked(sortedMessages[k])
  /\ \A k \in 1..Len(Pending(sortedMessages)) :
       Pending(sortedMessages)[k].id # Val(activeMessage).id

\* the sender's view lists a letter to another with the status "Opened"
C28_SenderSeesOpened ==
  \E k \in 1..Len(Sent(sortedMessages)) :
    LET m == Sent(sortedMessages)[k]
    IN /\ m.to # "You" /\ m.rawRecipient # userName
       /\ SentStatus(m) = "Opened"

\* this step calls onVerifiedMoon for a run of the mounted component: from the
\* timer in v3, at the end of verifyMoon in v1 and v4
EmitsInSession ==
  \/ \E i \in 1..MaxInFlight :
       /\ \/ onVerifiedMoonSend(i)
          \/ \E ok \in BOOLEAN : onVerifiedMoonUnlock(i, ok)
       /\ timers[i].own
  \/ \E i \in 1..MaxInFlight, ok \in BOOLEAN :
       /\ variant # "v3"
       /\ PredictSettles(i, TRUE, ok)
       /\ predicts[i].own
       /\ Passes(variant, MoonProb(variant, predict(Val(predicts[i].dataUrl))))

\* C29: Verified is terminal: onVerifiedMoon is called at most once in a capture
\* session, also while the unlock of the consumer is in flight and during the
\* delay before the hand-over
C29_AtMostOneCaptureRecord == [][EmitsInSession => ~cam.emitted]_vars

\* C30: every unlocked message of the table has receiveAt >= sentAt, sentAt
\* being the created_at the table assigned and receiveAt the receive_at that
\* unlockMessage wrote from the clock of the unlocking device
C30_ReceivedAfterSent ==
  \A id \in 1..Len(rows) :
    ~rows[id].locked => Val(rows[id].receive_at) >= rows[id].created_at

\* C30 as the viewer sees it
C30_ViewReceivedAfterSent ==
  \A k \in 1..Len(messages) :
    ~messages[k].locked => Val(messages[k].receiveAt) >= messages[k].sentAt

----------------------------------------------------------------------------
(* Properties of the capture pipeline *)

\* the take-photo button is rendered and enabled
CanTakePhoto ==
  /\ cam.mounted /\ ~hasError /\ IsNull(cam.capturedDataUrl)
  /\ IF variant = "v3" THEN isReady ELSE ~cam.modelLoading

\* C31: the model load and the camera acquisition do not wait for each other:
\* while one is pending it can complete, with success or with failure, whatever
\* the state of the other, and once both have succeeded with no frame held the
\* take-photo button is available, whichever completed first
C31_LoadsAreIndependent ==
  /\ cam.mounted /\ cam.modelLoading =>
       ENABLED ModelLoadSettles(TRUE) /\ ENABLED ModelLoadSettles(FALSE)
  /\ cam.mounted /\ cam.cameraStarting =>
       ENABLED CameraSettles(TRUE) /\ ENABLED CameraSettles(FALSE)
  /\ Ready => CanTakePhoto

\* the camera completed first, the model load then succeeded, and the pipeline
\* is Ready
C31_Witness ==
  /\ Ready /\ CanTakePhoto
  /\ variant = "v3"
  /\ cam.cameraReady
  /\ predicts = <<>> /\ timers = <<>>

\* the camera acquisition has completed while the model load is pending
C31_CameraFirst ==
  cam.mounted /\ cam.modelLoading /\ ~cam.cameraStarting /\ cam.stream

\* the model load has completed while the camera acquisition is pending
C31_ModelFirst ==
  cam.mounted /\ ~cam.modelLoading /\ cam.model /\ cam.cameraStarting

\* this step hands to onVerifiedMoon, for a run of the mounted component, a
\* CaptureRecord of a frame other than the one the component holds
EmitsDiscardedFrame ==
  \/ \E i \in 1..MaxInFlight :
       /\ \/ onVerifiedMoonSend(i)
          \/ \E ok \in BOOLEAN : onVerifiedMoonUnlock(i, ok)
       /\ timers[i].own
       /\ timers[i].capture.dataUrl # cam.capturedDataUrl
  \/ \E i \in 1..MaxInFlight, ok \in BOOLEAN :
       /\ variant # "v3"
       /\ PredictSettles(i, TRUE, ok)
       /\ predicts[i].own
       /\ Passes(variant, MoonProb(variant, predict(Val(predicts[i].dataUrl))))
       /\ predicts[i].dataUrl # cam.capturedDataUrl

\* C32: retake discards the held frame for good: after it no frame is held, and
\* no CaptureRecord of a frame the component no longer holds is handed over
\* afterwards, also when a verifyMoon run of that frame was in flight at the
\* retake
C32_RetakeDiscardsFrame ==
  [][/\ retake => IsNull(cam'.capturedDataUrl)
     /\ ~EmitsDiscardedFrame]_vars

----------------------------------------------------------------------------
(* Properties of the collection under concurrency *)

\* C33: the collection never holds two entries with the same id, whatever the
\* order of the load, the delivery of the insert event and the return of the
\* insertMessage call that created the message
C33_NoDuplicateIds ==
  \A i, j \in 1..Len(messages) : i # j => messages[i].id # messages[j].id

\* C34: the view of a message is monotonic: once the collection of a viewer shows
\* a message unlocked with its receivePhoto, no step within that viewer's
\* context makes the collection show the message locked or without a
\* receivePhoto
C34_ViewMonotonic ==
  [][(userName' = userName /\ epoch' = epoch) =>
       \A i \in 1..Len(messages), k \in 1..Len(messages') :
         (/\ ~messages[i].locked /\ ~IsNull(messages[i].receivePhoto)
          /\ messages'[k].id = messages[i].id)
         => ~messages'[k].locked /\ ~IsNull(messages'[k].receivePhoto)]_vars

\* m involves viewer and is the projection of its row for viewer
ProjectedFor(m, viewer) ==
  /\ m.rawSender = viewer \/ m.rawRecipient = viewer
  /\ m.from = (IF m.rawSender = viewer THEN "You" ELSE m.rawSender)
  /\ m.to = (IF m.rawSender = viewer THEN m.rawRecipient ELSE "You")

\* C35: in every reachable state every message of the collection involves the
\* current viewer and is projected for the current viewer, also after the name
\* was edited, after logout, and while the load of the new viewer is pending or
\* after it failed
C35_CollectionOfCurrentViewer ==
  \A i \in 1..Len(messages) : ProjectedFor(messages[i], userName)

----------------------------------------------------------------------------
(* Properties of who may unlock *)

\* every locked message of the collection addressed to the viewer is listed as
\* pending
OffersEveryLocked ==
  \A i \in 1..Len(messages) :
    (messages[i].locked /\ messages[i].rawRecipient = userName) =>
       \E k \in 1..Len(Pending(sortedMessages)) :
         Pending(sortedMessages)[k].id = messages[i].id

\* C36: every locked message of the collection whose recipient is the viewer is
\* offered for unlock: the inbox lists it as pending, and opening a locked
\* letter of that list leads to unlockCapture; a letter the viewer addressed to
\* their own name included
C36_LockedIsOffered ==
  [][/\ OffersEveryLocked /\ OffersEveryLocked'
     /\ \A k \in 1..MaxHeld + 1 :
          (handleOpenMessage(k) /\ Pending(sortedMessages)[k].locked)
          => route' = "unlockCapture"]_vars

\* the viewer is the recipient, and not the sender, of the row id
MayUnlock(id) ==
  /\ id \in 1..Len(rows)
  /\ rows[id].recipient = userName
  /\ rows[id].sender # userName

\* C37: unlockMessage is issued only for a message whose recipient is the current
\* viewer and whose sender is not: no sender unlocks a letter they sent and no
\* viewer a letter addressed to someone else
C37_OnlyRecipientUnlocks ==
  [][\A i \in 1..MaxInFlight, ok \in BOOLEAN :
       (onVerifiedMoonUnlock(i, ok) /\ ~IsNull(timers[i].activeId))
       => MayUnlock(Val(timers[i].activeId))]_vars

----------------------------------------------------------------------------
(* Termination of verifyMoon *)

\* C38: every verifyMoon run that is started finishes with verifying = false,
\* whether predict passes, rejects or throws, provided predict settles: the
\* component does not stay in Verifying, and in Captured with no run
\* verifying the Verify and Retake buttons are available
C38_VerifyTerminates ==
  /\ [](Captured /\ ~cam.verifying => CanVerify /\ CanRetake)
  /\ (cam.mounted /\ cam.verifying) ~> ~cam.verifying

\* a run has ended with a rejection: the frame is held, verifying is false and no
\* run is pending
C38_Witness ==
  /\ Captured
  /\ ~cam.verifying
  /\ cam.resultText.kind = "rejected"
  /\ predicts = <<>>

----------------------------------------------------------------------------
(* The specification of the app of lines 937-1156, which keeps nothing on    *)
(* the device and mounts the camera of lines 109-451: one session, from the  *)
(* onboarding screen on, with every outcome of insertMessage                 *)

\* the frames of this camera: one just under the threshold, and as many at or
\* over it as the table may hold letters
SendFrames ==
  { <<Prediction(MOON_CLASS_NAME, p)>> :
      p \in (MOON_THRESHOLD_v1 - 1)..(MOON_THRESHOLD_v1 + MaxRows - 1) }

\* the frames that a stored row, the held sendPhoto, the component or a pending
\* verifyMoon run carries
UsedFrames ==
  { Val(Val(rows[i].send_photo).dataUrl) : i \in 1..Len(rows) }
  \cup { Val(Val(rows[i].receive_photo).dataUrl) :
           i \in { j \in 1..Len(rows) : ~IsNull(rows[j].receive_photo) } }
  \cup { Val(Val(sendPhoto).dataUrl) : x \in { y \in {1} : ~IsNull(sendPhoto) } }
  \cup { Val(cam.capturedDataUrl) :
           x \in { y \in {1} : cam.mounted /\ ~IsNull(cam.capturedDataUrl) } }
  \cup { Val(predicts[i].dataUrl) : i \in 1..Len(predicts) }

\* toDataURL of a later instant of the video gives another JPEG
FreshFrames == SendFrames \ UsedFrames

InitSend ==
  /\ rows \in InitialTables
  /\ clock = 0
  /\ userName = ""
  /\ route = "onboarding"
  /\ messages = <<>>
  /\ sortedMessages = <<>>
  /\ activeMessage = Null
  /\ sendPhoto = Null
  /\ recipient = Null
  /\ loads = <<>>
  /\ channel = "none"
  /\ feedQ = <<>>
  /\ sends = <<>>
  /\ unlocks = <<>>
  /\ channels = {}
  /\ epoch = 0
  /\ reported = ""
  /\ variant = "v1"
  /\ cam = NoCam
  /\ predicts = <<>>
  /\ timers = <<>>
  /\ streams = [live |-> 0, strays |-> 0]

NextSend ==
  \/ Session
  \/ handleStartSend
  \/ \E n \in Names : handleSelectRecipient(n)
  \/ \E b \in Bodies, ok \in BOOLEAN : handleSendMessage(b, ok)
  \/ \E i \in 1..MaxInFlight : SendSettles(i)
  \/ handleMessageSentComplete
  \/ \E k \in 1..MaxRows : handleOpenMessage(k)
  \/ handlePrintingComplete
  \/ \E i \in 1..MaxInFlight : UnlockSettles(i)
  \/ \E r \in Routes : NavSelect(r)
  \/ Back
  \/ ModelLoadSettles(TRUE)
  \/ CameraSettles(TRUE)
  \/ \E f \in FreshFrames : takePhoto(f)
  \/ retake
  \/ verifyMoon
  \/ \E i \in 1..MaxInFlight : PredictSettles(i, TRUE, TRUE)

SpecSend == InitSend /\ [][NextSend]_vars

\* the route shows SelectRecipientScreen or ComposeLetterScreen
Addressing == route \in {"selectRecipient", "compose"}

\* a step of handleSendMessage that calls insertMessage, which stores the row
IssuesInsert == Len(rows') = Len(rows) + 1

\* the letters this client sent
OwnRows == { i \in 1..Len(rows) : rows[i].send_photo # Some(RemoteCapture) }

\* on selectRecipient and compose the held sendPhoto is a CaptureRecord of a
\* passing verification, and every insertMessage of handleSendMessage carries one
C39_HeldPhotoVerified ==
  [][/\ Addressing => (~IsNull(sendPhoto) /\ Verified(Val(sendPhoto)))
     /\ IssuesInsert =>
          /\ rows'[Len(rows')].send_photo = sendPhoto
          /\ ~IsNull(sendPhoto) /\ Verified(Val(sendPhoto))]_vars

\* no two letters of this client carry the same CaptureRecord
C39_PhotoSentOnce ==
  \A i, j \in OwnRows : rows[i].send_photo = rows[j].send_photo => i = j

\* C39: in the app of lines 937-1156, whenever the route is selectRecipient or
\* compose the held sendPhoto is a non-null CaptureRecord of a passing
\* verification, so every insertMessage issued by handleSendMessage carries a
\* verified sendPhoto; and the held sendPhoto is cleared after each completed send,
\* so that no sendPhoto is used for a second letter
C39_VerifiedPhotoSentOnce ==
  C39_HeldPhotoVerified /\ []C39_PhotoSentOnce

====
